---- MODULE Spec2Model ----
(***************************************************************************)
(* MatLayer: the layer slot store (scene.matlayer_layers), the layer stack *)
(* state (scene.matlayer_layer_stack) and the shader graph of the active   *)
(* material, as driven by the operators of core/material_layers.py and the *)
(* layer list of ui/ui_layer_section.py.                                   *)
(*                                                                         *)
(* Indices are 0-based as in the source; a TLA+ sequence position is the   *)
(* index plus one.  A decimal string str(i) is represented by the integer  *)
(* i (str is injective on the integers), the empty string by EmptyName.    *)
(* A name the host made unique by appending ".001", ".002", ... is the     *)
(* pair <<base, k>>; <<base, 0>> is the name without a suffix.             *)
(***************************************************************************)
EXTENDS Integers, Sequences, FiniteSets, TLC

\* Number of layer group nodes the model lets a material tree hold; the Add
\* operator never removes a node, so this also bounds the slot store.
MaxLayers == 3

\* Size of the token space of random.randrange(0, 999999), scaled down.
TokenRange == 3

\* Largest layer index format_layer_group_node_name() is called with on its own.
MaxIndex == 12

\* The name of a freshly added slot (StringProperty default "").
EmptyName == -1

\* Width and location of a node as nodes.new() leaves them; the width and the
\* pitch organize_layer_group_nodes() assigns.
DefaultWidth == 140
LayerNodeWidth == 300
FirstPositionX == -500
PositionPitch == 500

Max(a, b) == IF a >= b THEN a ELSE b
Min(a, b) == IF a <= b THEN a ELSE b

VARIABLES
    active_object,          \* type of bpy.context.active_object: "NONE", "MESH" or "CURVE"
    material_slots,         \* the mesh's material slots: "NO_SLOTS", "EMPTY_SLOT" or "MATERIAL"
    material_name,          \* name of the mesh's active material ("" while it has none)
    tree_nodes,             \* named non-layer nodes of the active material's node tree
    layer_nodes,            \* ShaderNodeGroup nodes the Add operator created in that tree
    links,                  \* output sockets of layer node "0" linked into the shading network
    default_groups,         \* TRUE once append_default_node_groups() has imported the defaults
    matlayer_layers,        \* scene.matlayer_layers: sequence of MATLAYER_layers records
    selected_layer_index,   \* scene.matlayer_layer_stack.selected_layer_index
    layer_index,            \* the attribute "layer_index" the operators assign; nothing reads it
    new_layer_slot_index,   \* value add_material_layer_slot() returned last
    direction,              \* direction property the command run last was given ("" if none)
    format_call,            \* two calls of format_layer_group_node_name(): arguments, results
    op,                     \* the command run last
    status                  \* how it ended

vars == <<active_object, material_slots, material_name, tree_nodes, layer_nodes, links,
          default_groups, matlayer_layers, selected_layer_index, layer_index,
          new_layer_slot_index, direction, format_call, op, status>>

ObjectTypes == {"NONE", "MESH", "CURVE"}
TemplateNodes == {"MATLAYER_BSDF", "NORMAL_HEIGHT_MIX"}
BsdfSockets == {"Color", "Subsurface", "Metallic", "Specular", "Roughness", "Emission", "Alpha"}
MixSockets == {"Normal", "Height"}
Directions == {"UP", "DOWN"}
NoDirection == ""
Tokens == 0 .. (TokenRange - 1)

----------------------------------------------------------------------------
(* bpy collection property: find, move, remove *)

\* layers.find(key): index of the first slot named key, -1 when there is none.
find(layers, key) ==
    IF \E p \in 1 .. Len(layers) : layers[p].name = key
    THEN (CHOOSE p \in 1 .. Len(layers) :
             /\ layers[p].name = key
             /\ \A q \in 1 .. (p - 1) : layers[q].name # key) - 1
    ELSE -1

\* layers.move(from, to): takes the item at index from out and puts it at index to.
move(layers, from, to) ==
    IF from < 0 \/ from >= Len(layers) \/ to < 0 \/ to >= Len(layers) \/ from = to
    THEN layers
    ELSE LET item == layers[from + 1]
             rest == [p \in 1 .. (Len(layers) - 1) |->
                         IF p < from + 1 THEN layers[p] ELSE layers[p + 1]]
         IN  [p \in 1 .. Len(layers) |->
                 IF p < to + 1 THEN rest[p]
                 ELSE IF p = to + 1 THEN item
                 ELSE rest[p - 1]]

\* layers.remove(index): drops the item at index; an index out of range changes nothing.
remove(layers, index) ==
    IF index < 0 \/ index >= Len(layers)
    THEN layers
    ELSE [p \in 1 .. (Len(layers) - 1) |->
             IF p < index + 1 THEN layers[p] ELSE layers[p + 1]]

SlotNames(layers) == {layers[p].name : p \in 1 .. Len(layers)}

----------------------------------------------------------------------------
(* Names in the host: a name already taken gets the first free suffix *)

UniqueSuffix(base, taken) ==
    CHOOSE k \in 0 .. Cardinality(taken) :
        /\ <<base, k>> \notin taken
        /\ \A j \in 0 .. (k - 1) : <<base, j>> \in taken

NodeNames(nodes) == {n.name : n \in nodes}
GroupNames(nodes) == {n.node_tree : n \in nodes}

\* nodes.get(str(i)) on the layer nodes of the tree: TRUE when a node has exactly that name.
HasLayerNode(nodes, i) == <<i, 0>> \in NodeNames(nodes)

----------------------------------------------------------------------------
(* Pure functions of material_layers.py *)

\* str(n) of a Python int: the decimal digits, most significant first, without
\* leading zeros, after a "-" for a negative number.
DecimalDigits == <<"0", "1", "2", "3", "4", "5", "6", "7", "8", "9">>

RECURSIVE str(_)
str(n) ==
    IF n < 0 THEN "-" \o str(0 - n)
    ELSE IF n < 10 THEN DecimalDigits[n + 1]
    ELSE str(n \div 10) \o DecimalDigits[(n % 10) + 1]

\* "{0}_{1}".format(active_material_name, layer_index).  (The other is the
\* format string without the separator.)
format_without_separator(active_material_name, index) ==
    active_material_name \o str(index)

format_layer_group_node_name(active_material_name, index) ==
    active_material_name \o "_" \o str(index)

\* read_total_layers(): layer_count starts at 1 and grows while str(layer_count) is found.
RECURSIVE ProbeFrom(_, _)
ProbeFrom(nodes, layer_count) ==
    IF HasLayerNode(nodes, layer_count)
    THEN ProbeFrom(nodes, layer_count + 1)
    ELSE layer_count

read_total_layers(nodes) == ProbeFrom(nodes, 1)

\* organize_layer_group_nodes(): the nodes "0" .. str(layer_count - 1) that exist get
\* width 300 and x = -500, -1000, ... in ascending index order; position_x only
\* moves on for a node that was found.
organize_layer_group_nodes(nodes) ==
    LET layer_count == read_total_layers(nodes)
        found(i) == Cardinality({j \in 0 .. (i - 1) : HasLayerNode(nodes, j)})
    IN  {IF n.name[2] = 0 /\ n.name[1] \in 0 .. (layer_count - 1)
         THEN [n EXCEPT !.width = LayerNodeWidth,
                        !.location = FirstPositionX - PositionPitch * found(n.name[1])]
         ELSE n : n \in nodes}

\* connect_layer_group_nodes(): the links made before the first failed attribute
\* access, and whether one failed.  Line 322 evaluates layer_node.outputs, then
\* principled_bsdf.inputs; line 329 is the first use of normal_and_height_mix.
connect_layer_group_nodes(nodes, named, old_links) ==
    IF ~HasLayerNode(nodes, 0) THEN [links |-> old_links, raised |-> TRUE]
    ELSE IF "MATLAYER_BSDF" \notin named THEN [links |-> old_links, raised |-> TRUE]
    ELSE IF "NORMAL_HEIGHT_MIX" \notin named
         THEN [links |-> old_links \cup BsdfSockets, raised |-> TRUE]
    ELSE [links |-> old_links \cup BsdfSockets \cup MixSockets, raised |-> FALSE]

\* layers.add(): the record appended to the store.
NewSlot == [name |-> EmptyName, hidden |-> FALSE]

\* The tokens the loop of add_material_layer_slot() can leave in
\* unique_random_slot_id: those layers.find() does not find.  (any_random_slot_id
\* is the draw without the loop.)
any_random_slot_id(layers) == Tokens

unique_random_slot_id(layers) == {t \in Tokens : find(layers, t) = -1}

\* add_material_layer_slot(): the store, the value assigned to layer_index and the
\* value returned, which is read back from selected_layer_index.
add_material_layer_slot(layers, selected, token) ==
    LET added == Append(layers, NewSlot)
        named == [added EXCEPT ![Len(added)].name = token]
        move_index == Len(named) - 1
        move_to_index == IF selected < 0
                         THEN 0
                         ELSE Max(0, Min(selected + 1, Len(named) - 1))
    IN  [layers |-> move(named, move_index, move_to_index),
         layer_index |-> move_to_index,
         returned |-> selected]

\* Material names the function is called with on its own: with and without
\* underscores and digits, one a prefix of another.
MaterialNames == {"Wood", "Wood_", "Wood1", "Wood_1", "Wood_1_2", "W", "1", "_", "_1"}

\* No call made yet, and the calls that can be made: two pairs of arguments,
\* no result yet.
NoFormatCall == [args |-> <<>>, names |-> <<>>]

FormatCalls ==
    {[args |-> <<a, b>>, names |-> <<>>] :
        a \in MaterialNames \X (0 .. MaxIndex), b \in MaterialNames \X (0 .. MaxIndex)}

----------------------------------------------------------------------------
(* blender_addon_utils, as the callers and the design describe it *)

\* The named nodes of the material append_material("DefaultMatLayerMaterial")
\* returns: the final shading node and the normal/height combiner.
DefaultMatLayerMaterial == TemplateNodes

\* append_default_node_groups(): the default node groups are in the file afterwards.
append_default_node_groups(imported) == TRUE

----------------------------------------------------------------------------
(* Initial state: nothing added yet.  The mesh has no material slot, an     *)
(* empty one, or a material of its own with any of the template's nodes.    *)

Init ==
    /\ active_object \in ObjectTypes
    /\ material_slots \in {"NO_SLOTS", "EMPTY_SLOT", "MATERIAL"}
    /\ material_name = (IF material_slots = "MATERIAL" THEN "Material" ELSE "")
    /\ tree_nodes \in (IF material_slots = "MATERIAL" THEN SUBSET TemplateNodes ELSE {{}})
    /\ layer_nodes = {}
    /\ links = {}
    /\ default_groups = FALSE
    /\ matlayer_layers = <<>>
    /\ selected_layer_index = -1
    /\ layer_index = -1
    /\ new_layer_slot_index = -1
    /\ direction = NoDirection
    /\ format_call = NoFormatCall
    /\ op = "none"
    /\ status = "none"

Graph == <<material_slots, material_name, tree_nodes, layer_nodes, links>>
SlotState == <<matlayer_layers, selected_layer_index, layer_index, new_layer_slot_index>>

\* poll() of every operator returns context.active_object: without one the
\* command does not run.
PollFails(name) ==
    /\ active_object = "NONE"
    /\ op' = name
    /\ status' = "POLL_FAILED"
    /\ UNCHANGED <<active_object, Graph, default_groups, SlotState>>

----------------------------------------------------------------------------
(* MATLAYER_OT_add_material_layer *)

AddNotMesh ==
    /\ active_object = "CURVE"
    /\ default_groups' = append_default_node_groups(default_groups)
    /\ op' = "add_material_layer"
    /\ status' = "ERROR_REPORTED"
    /\ UNCHANGED <<active_object, Graph, SlotState>>

AddOnMesh ==
    /\ active_object = "MESH"
    /\ Cardinality(layer_nodes) < MaxLayers
    /\ \E token \in unique_random_slot_id(Append(matlayer_layers, NewSlot)) :
        LET has_material == material_slots = "MATERIAL"
            name_after == IF has_material THEN material_name ELSE "Mesh"
            named_after == IF has_material THEN tree_nodes ELSE DefaultMatLayerMaterial
            slot == add_material_layer_slot(matlayer_layers, selected_layer_index, token)
            index == slot.returned
            group_base == format_layer_group_node_name(name_after, index)
            group_name == <<group_base, UniqueSuffix(group_base, GroupNames(layer_nodes))>>
            new_node == [name |-> <<index, UniqueSuffix(index, NodeNames(layer_nodes))>>,
                         label |-> index,
                         node_tree |-> group_name,
                         width |-> DefaultWidth,
                         location |-> 0]
            organized == organize_layer_group_nodes(layer_nodes \cup {new_node})
            connected == connect_layer_group_nodes(organized, named_after, links)
        IN  /\ material_slots' = "MATERIAL"
            /\ material_name' = name_after
            /\ tree_nodes' = named_after
            /\ matlayer_layers' = slot.layers
            /\ layer_index' = slot.layer_index
            /\ new_layer_slot_index' = index
            /\ layer_nodes' = organized
            /\ links' = connected.links
            /\ status' = (IF connected.raised THEN "ATTRIBUTE_ERROR" ELSE "FINISHED")
    /\ default_groups' = append_default_node_groups(default_groups)
    /\ op' = "add_material_layer"
    /\ UNCHANGED <<active_object, selected_layer_index>>

AddMaterialLayer == PollFails("add_material_layer") \/ AddNotMesh \/ AddOnMesh

----------------------------------------------------------------------------
(* The stub operators: execute() returns {'FINISHED'} and does nothing else *)

Finished(name) ==
    /\ active_object # "NONE"
    /\ op' = name
    /\ status' = "FINISHED"
    /\ UNCHANGED <<active_object, Graph, default_groups, SlotState>>

AddPaintMaterialLayer ==
    PollFails("add_paint_material_layer") \/ Finished("add_paint_material_layer")

AddDecalMaterialLayer ==
    PollFails("add_decal_material_layer") \/ Finished("add_decal_material_layer")

DuplicateLayer == PollFails("duplicate_layer") \/ Finished("duplicate_layer")

\* MATLAYER_OT_move_material_layer.execute(): the store and the selection it
\* leaves, which are those it found, whatever the direction.  (The other is a
\* move to the neighbouring index that does not look at the ends of the store.)
move_without_boundary_check(layers, selected, towards) ==
    LET target == IF towards = "UP" THEN selected - 1 ELSE selected + 1
    IN  [layers |-> move(layers, selected, target), selected |-> target]

move_material_layer(layers, selected, towards) ==
    [layers |-> layers, selected |-> selected]

MoveOnObject(towards) ==
    /\ active_object # "NONE"
    /\ LET moved == move_material_layer(matlayer_layers, selected_layer_index, towards)
       IN  /\ matlayer_layers' = moved.layers
           /\ selected_layer_index' = moved.selected
    /\ op' = "move_material_layer"
    /\ status' = "FINISHED"
    /\ UNCHANGED <<active_object, Graph, default_groups, layer_index, new_layer_slot_index>>

MoveMaterialLayer ==
    \E towards \in Directions :
        /\ direction' = towards
        /\ \/ PollFails("move_material_layer")
           \/ MoveOnObject(towards)

----------------------------------------------------------------------------
(* MATLAYER_OT_delete_layer: removes the selected slot whatever the type of  *)
(* the active object, assigns layer_index, and leaves the graph alone.       *)

DeleteOnObject ==
    /\ active_object # "NONE"
    /\ LET layers == remove(matlayer_layers, selected_layer_index)
       IN  /\ matlayer_layers' = layers
           /\ layer_index' = Max(Min(selected_layer_index - 1, Len(layers) - 1), 0)
    /\ op' = "delete_layer"
    /\ status' = "FINISHED"
    /\ UNCHANGED <<active_object, Graph, default_groups, selected_layer_index,
                   new_layer_slot_index>>

DeleteLayer == PollFails("delete_layer") \/ DeleteOnObject

----------------------------------------------------------------------------
(* The user: picks a row of the layer list, which draw_layer_stack() shows   *)
(* only for a non-empty store and which writes selected_layer_index; makes   *)
(* another object the active one.                                            *)

SelectLayer ==
    /\ Len(matlayer_layers) > 0
    /\ \E i \in 0 .. (Len(matlayer_layers) - 1) :
        /\ i # selected_layer_index
        /\ selected_layer_index' = i
    /\ op' = "select_layer"
    /\ status' = "FINISHED"
    /\ UNCHANGED <<active_object, Graph, default_groups, matlayer_layers, layer_index,
                   new_layer_slot_index>>

SetActiveObject ==
    /\ \E type \in ObjectTypes :
        /\ type # active_object
        /\ active_object' = type
    /\ op' = "set_active_object"
    /\ status' = "FINISHED"
    /\ UNCHANGED <<Graph, default_groups, SlotState>>

Next ==
    \/ AddMaterialLayer /\ direction' = NoDirection /\ UNCHANGED format_call
    \/ AddPaintMaterialLayer /\ direction' = NoDirection /\ UNCHANGED format_call
    \/ AddDecalMaterialLayer /\ direction' = NoDirection /\ UNCHANGED format_call
    \/ DeleteLayer /\ direction' = NoDirection /\ UNCHANGED format_call
    \/ DuplicateLayer /\ direction' = NoDirection /\ UNCHANGED format_call
    \/ MoveMaterialLayer /\ UNCHANGED format_call
    \/ SelectLayer /\ direction' = NoDirection /\ UNCHANGED format_call
    \/ SetActiveObject /\ direction' = NoDirection /\ UNCHANGED format_call

Spec == Init /\ [][Next]_vars

----------------------------------------------------------------------------
(* format_layer_group_node_name() on its own: the scene stays as it is at    *)
(* the start, the function is applied to two pairs of arguments.             *)

InitFormat ==
    /\ active_object = "MESH"
    /\ material_slots = "NO_SLOTS"
    /\ material_name = ""
    /\ tree_nodes = {}
    /\ layer_nodes = {}
    /\ links = {}
    /\ default_groups = FALSE
    /\ matlayer_layers = <<>>
    /\ selected_layer_index = -1
    /\ layer_index = -1
    /\ new_layer_slot_index = -1
    /\ direction = NoDirection
    /\ format_call \in FormatCalls
    /\ op = "none"
    /\ status = "none"

FormatNames ==
    /\ format_call.names = <<>>
    /\ format_call' =
           [format_call EXCEPT !.names =
               <<format_layer_group_node_name(format_call.args[1][1], format_call.args[1][2]),
                 format_layer_group_node_name(format_call.args[2][1], format_call.args[2][2])>>]
    /\ op' = "format_layer_group_node_name"
    /\ status' = "FINISHED"
    /\ UNCHANGED <<active_object, Graph, default_groups, SlotState, direction>>

NextFormat == FormatNames

SpecFormat == InitFormat /\ [][NextFormat]_vars

----------------------------------------------------------------------------
(* Properties *)

\* The six operators of the layer command set.
CommandNames == {"add_material_layer", "add_paint_material_layer", "add_decal_material_layer",
                 "delete_layer", "duplicate_layer", "move_material_layer"}

\* A step in which the Add operator got as far as add_material_layer_slot().
AddSlotStep == op' = "add_material_layer" /\ active_object = "MESH"

\* A step in which Delete Layer ran with selected_layer_index inside the store.
DeleteValidStep ==
    /\ op' = "delete_layer"
    /\ active_object # "NONE"
    /\ selected_layer_index >= 0
    /\ selected_layer_index < Len(matlayer_layers)

\* The smallest n >= 0 for which the tree has no node named str(n).
FirstMissingIndex(nodes) ==
    CHOOSE n \in 0 .. Cardinality(nodes) :
        /\ ~HasLayerNode(nodes, n)
        /\ \A j \in 0 .. (n - 1) : HasLayerNode(nodes, j)

\* C1: after every Add Material Layer, Delete Layer, Move Layer or Duplicate
\* Layer command, the layer count read from the graph by read_total_layers()
\* equals the length of the layer slot store.
C1_CountEqualsStoreLength ==
    (/\ op \in {"add_material_layer", "delete_layer", "move_material_layer",
                 "duplicate_layer"}
     /\ status \in {"FINISHED", "ATTRIBUTE_ERROR"}
     /\ material_slots = "MATERIAL")
    => read_total_layers(layer_nodes) = Len(matlayer_layers)

\* C2: selected_layer_index is -1 or an index of the layer slot store.
C2_SelectionInRange ==
    \/ selected_layer_index = -1
    \/ /\ 0 <= selected_layer_index
       /\ selected_layer_index <= Len(matlayer_layers) - 1

\* C3: the layer nodes of the graph are exactly those derived from the slot
\* positions: one node named str(i), with node group "<material>_<i>", for each
\* position i of the store, and no other.
C3_NodesDerivedFromSlots ==
    /\ NodeNames(layer_nodes) = {<<i, 0>> : i \in 0 .. (Len(matlayer_layers) - 1)}
    /\ Cardinality(layer_nodes) = Len(matlayer_layers)
    /\ \A n \in layer_nodes :
           n.node_tree = <<format_layer_group_node_name(material_name, n.name[1]), 0>>

\* C4: no two slots of the store carry the same name; the Add operator puts
\* one new slot into the store, named by a token no slot carried before, and
\* every other step leaves the store as it was or drops one slot from it.
C4_UniqueSlotIds ==
    /\ [](\A p, q \in 1 .. Len(matlayer_layers) :
              p # q => matlayer_layers[p].name # matlayer_layers[q].name)
    /\ [][IF AddSlotStep
          THEN \E i \in 0 .. Len(matlayer_layers) :
                   /\ Len(matlayer_layers') = Len(matlayer_layers) + 1
                   /\ remove(matlayer_layers', i) = matlayer_layers
                   /\ matlayer_layers'[i + 1].name \in Tokens \ SlotNames(matlayer_layers)
          ELSE \/ matlayer_layers' = matlayer_layers
               \/ \E i \in 0 .. (Len(matlayer_layers) - 1) :
                      matlayer_layers' = remove(matlayer_layers, i)]_vars

\* C4 witness: the Add operator has put a slot into a store that already held two.
C4_Witness ==
    /\ op = "add_material_layer"
    /\ status \in {"FINISHED", "ATTRIBUTE_ERROR"}
    /\ Len(matlayer_layers) >= 3

\* C5: add_material_layer_slot() called with no selection grows the store by
\* one, leaves the new slot at position 0, returns 0 and leaves
\* selected_layer_index at 0.
C5_AddWithoutSelection ==
    [][(AddSlotStep /\ selected_layer_index < 0)
       => /\ Len(matlayer_layers') = Len(matlayer_layers) + 1
          /\ remove(matlayer_layers', 0) = matlayer_layers
          /\ matlayer_layers'[1].name \notin SlotNames(matlayer_layers)
          /\ new_layer_slot_index' = 0
          /\ selected_layer_index' = 0]_vars

\* C6: add_material_layer_slot() called with selected_layer_index = k >= 0 on a
\* store of n slots leaves the new slot at position clamp(k + 1, 0, n), returns
\* that position and leaves selected_layer_index at it.
C6_AddAboveSelection ==
    [][(AddSlotStep /\ selected_layer_index >= 0)
       => LET position == Max(0, Min(selected_layer_index + 1, Len(matlayer_layers)))
          IN  /\ Len(matlayer_layers') = Len(matlayer_layers) + 1
              /\ remove(matlayer_layers', position) = matlayer_layers
              /\ matlayer_layers'[position + 1].name \notin SlotNames(matlayer_layers)
              /\ new_layer_slot_index' = position
              /\ selected_layer_index' = position]_vars

\* C7: after Delete Layer on a valid selected index, with count the length of
\* the store after the removal: if count > 0 the selection is
\* clamp(old - 1, 0, count - 1), inside [0, count - 1]; it is -1 only if count = 0.
C7_DeleteClampsSelection ==
    [][DeleteValidStep
       => LET count == Len(matlayer_layers')
          IN  /\ count = Len(matlayer_layers) - 1
              /\ count > 0 =>
                     /\ selected_layer_index' \in 0 .. (count - 1)
                     /\ selected_layer_index' =
                            Max(Min(selected_layer_index - 1, count - 1), 0)
              /\ selected_layer_index' = -1 => count = 0]_vars

\* C8, first half: a command run without an active mesh object reports the
\* failure and leaves the store, the selection, the materials and the graph,
\* imported node groups included, as they were.
C8_FailedPreconditionMutatesNothing ==
    (op' \in CommandNames /\ active_object # "MESH")
    => /\ status' \in {"POLL_FAILED", "ERROR_REPORTED"}
       /\ UNCHANGED <<matlayer_layers, selected_layer_index, Graph, default_groups>>

\* C8, second half: a command run on an active mesh object changes the store
\* and the graph together or neither.
C8_StoreAndGraphTogether ==
    (op' \in CommandNames /\ active_object = "MESH")
    => ((matlayer_layers' # matlayer_layers) <=> (Graph' # Graph))

\* C8: every command whose precondition fails reports it and mutates nothing;
\* every other command updates the slot store and the graph together.
C8_AtomicCommands ==
    [][C8_FailedPreconditionMutatesNothing /\ C8_StoreAndGraphTogether]_vars

\* The lookups of connect_layer_group_nodes() on the graph the Add operator
\* hands it: one of layer node "0", MATLAYER_BSDF, NORMAL_HEIGHT_MIX is absent.
LookupFails(nodes, named) ==
    \/ ~HasLayerNode(nodes, 0)
    \/ "MATLAYER_BSDF" \notin named
    \/ "NORMAL_HEIGHT_MIX" \notin named

\* C9, the state a failed lookup may leave: nothing of the command applied, or
\* store length = graph layer count.
C9_StateAfterFailedLookup ==
    \/ UNCHANGED <<matlayer_layers, selected_layer_index, Graph, default_groups>>
    \/ Len(matlayer_layers') = read_total_layers(layer_nodes')

\* C9: a command in which a named-node lookup of the synchronizer fails ends in
\* the InconsistentGraph outcome, with no mutation applied or with store length
\* = graph layer count.
C9_FailedLookupIsInconsistentGraph ==
    [][(AddSlotStep /\ LookupFails(layer_nodes', tree_nodes'))
       => /\ status' = "INCONSISTENT_GRAPH"
          /\ C9_StateAfterFailedLookup]_vars

\* C10: read_total_layers() returns the smallest n >= 0 such that the graph has
\* no node named str(n).
C10_CountIsFirstMissingIndex ==
    (active_object = "MESH" /\ material_slots = "MATERIAL")
    => read_total_layers(layer_nodes) = FirstMissingIndex(layer_nodes)

\* A step in which Move Layer ran, towards the given direction.
MoveStep(towards) ==
    /\ op' = "move_material_layer"
    /\ active_object # "NONE"
    /\ direction' = towards

\* The store with the slots at indices i and j exchanged.
Swapped(layers, i, j) ==
    [p \in 1 .. Len(layers) |->
        IF p = i + 1 THEN layers[j + 1]
        ELSE IF p = j + 1 THEN layers[i + 1]
        ELSE layers[p]]

\* C11: Move Layer on a selected slot that is not at the boundary swaps it with
\* its neighbour in the given direction (up is towards index 0, as in
\* move_slot(1, up) turning [A,B] into [B,A]) and the selection follows the
\* moved slot; the slots keep their tokens.
C11_MoveSwapsWithNeighbour ==
    [][\A towards \in Directions :
          LET target == IF towards = "UP"
                        THEN selected_layer_index - 1
                        ELSE selected_layer_index + 1
          IN  (/\ MoveStep(towards)
               /\ selected_layer_index \in 0 .. (Len(matlayer_layers) - 1)
               /\ target \in 0 .. (Len(matlayer_layers) - 1))
              => /\ matlayer_layers' = Swapped(matlayer_layers, selected_layer_index, target)
                 /\ selected_layer_index' = target
                 /\ SlotNames(matlayer_layers') = SlotNames(matlayer_layers)]_vars

\* The selected slot is at the boundary Move Layer would cross: the top one
\* (index 0) moving up, or the bottom one (the last index) moving down.
AtBoundary(towards) ==
    /\ Len(matlayer_layers) > 0
    /\ \/ towards = "UP" /\ selected_layer_index = 0
       \/ towards = "DOWN" /\ selected_layer_index = Len(matlayer_layers) - 1

\* C12: Move Layer up on the top slot, or down on the bottom slot, ends without
\* an error and leaves the slot sequence, selected_layer_index and the shader
\* graph as they were.
C12_MoveAtBoundaryIsNoOp ==
    [][\A towards \in Directions :
          (MoveStep(towards) /\ AtBoundary(towards))
          => /\ status' = "FINISHED"
             /\ UNCHANGED <<matlayer_layers, selected_layer_index, Graph>>]_vars

\* C12 witness: Move Layer has run on a boundary slot of a store of three (the
\* command changes nothing, so the state before it had the same selection).
C12_Witness ==
    /\ op = "move_material_layer"
    /\ status = "FINISHED"
    /\ Len(matlayer_layers) = 3
    /\ \/ direction = "UP" /\ selected_layer_index = 0
       \/ direction = "DOWN" /\ selected_layer_index = 2

\* C13: format_layer_group_node_name() returns the material name, an
\* underscore and the decimal layer index ("Wood", 3 gives "Wood_3"), and two
\* distinct pairs (material name, layer index >= 0) never get the same name,
\* whatever underscores and digits the material names contain.
C13_NodeNameInjective ==
    format_call.names # <<>>
    => LET a == format_call.args[1]
           b == format_call.args[2]
       IN  /\ a = <<"Wood", 3>> => format_call.names[1] = "Wood_3"
           /\ a = <<"Wood_1", 12>> => format_call.names[1] = "Wood_1_12"
           /\ a = <<"_", 0>> => format_call.names[1] = "__0"
           /\ a # b => format_call.names[1] # format_call.names[2]
           /\ a = b => format_call.names[1] = format_call.names[2]

\* C13 witness: the function has named ("Wood_1", 2) and ("Wood", 12), which
\* differ only in where the digits and the underscore sit.
C13_Witness ==
    /\ format_call.names = <<"Wood_1_2", "Wood_12">>
    /\ format_call.args = <<<<"Wood_1", 2>>, <<"Wood", 12>>>>

====
